---- MODULE Spec2Model ----
(***************************************************************************)
(* Model of MV1.py: the trend-following back-test pipeline                 *)
(* (fetch_hybrid_data) and the report script built on its result.          *)
(*                                                                         *)
(* Number representation.  The program computes in IEEE doubles; the model *)
(* computes the same expressions exactly.                                  *)
(*   - prices are positive integers;                                       *)
(*   - the SMA column holds the rolling mean in units of 1/SMA_PERIOD      *)
(*     (the window sum), so Price > SMA is Price * SMA_PERIOD > cell;      *)
(*   - daily returns and rates are integers in units of 1/Scale, where     *)
(*     Scale = 252 * 1000: 0.04/252 is 40, 0.005/252 is 5 and 0.011/252    *)
(*     is 11 of these units, and (p - q) / q is exact for every price      *)
(*     q in 1..10;                                                         *)
(*   - equity values and YTD figures are exact fractions of arbitrary      *)
(*     size (Q* operators below);                                          *)
(*   - NaN is a distinguished cell value in each representation.           *)
(***************************************************************************)
EXTENDS Integers, Sequences, FiniteSets, TLC

\* ------------------------------------------------------------------------
\* Bounds of the model
\* ------------------------------------------------------------------------
MaxLen == 4          \* longest benchmark series (number of trading dates)
MaxPrice == 2        \* benchmark closes range over 1..MaxPrice
MaxYearSpan == 2     \* the dates lie in BaseYear..BaseYear + MaxYearSpan
SMA_PERIOD == 2      \* rolling window (the script uses 300)

\* ------------------------------------------------------------------------
\* Configuration (section 1 of the script)
\* ------------------------------------------------------------------------
START_CAPITAL == 10000
TradingDays == 252
Scale == TradingDays * 1000
FIXED_RISK_FREE_RATE == 40      \* 0.04, in thousandths
BROKER_SPREAD == 5              \* 0.005 / 252, in units of 1/Scale
DAILY_EXPENSE == 11             \* 0.011 / 252, in units of 1/Scale
BaseYear == 2000                \* yf.download(start='2000-01-01')

\* NaN in an integer-valued column (prices, SMA, returns)
NaN == 0 - Scale * 1000

\* ------------------------------------------------------------------------
\* Exact arithmetic: naturals of arbitrary size, little-endian digits
\* ------------------------------------------------------------------------
BASE == 100 * 100

RECURSIVE NatToBig(_)
NatToBig(n) == IF n = 0 THEN <<>> ELSE <<n % BASE>> \o NatToBig(n \div BASE)

RECURSIVE BigAddC(_, _, _)
BigAddC(a, b, c) ==
  IF a = <<>> /\ b = <<>> THEN (IF c = 0 THEN <<>> ELSE <<c>>)
  ELSE LET x == IF a = <<>> THEN 0 ELSE Head(a)
           y == IF b = <<>> THEN 0 ELSE Head(b)
           s == x + y + c
       IN <<s % BASE>> \o BigAddC(IF a = <<>> THEN <<>> ELSE Tail(a),
                                  IF b = <<>> THEN <<>> ELSE Tail(b),
                                  s \div BASE)

BigAdd(a, b) == BigAddC(a, b, 0)

RECURSIVE BigMulDigit(_, _, _)
BigMulDigit(a, d, c) ==
  IF a = <<>> THEN (IF c = 0 THEN <<>> ELSE <<c>>)
  ELSE LET s == Head(a) * d + c
       IN <<s % BASE>> \o BigMulDigit(Tail(a), d, s \div BASE)

BigShift(a) == IF a = <<>> THEN <<>> ELSE <<0>> \o a

RECURSIVE BigMul(_, _)
BigMul(a, b) ==
  IF a = <<>> \/ b = <<>> THEN <<>>
  ELSE IF Head(b) = 0 THEN BigShift(BigMul(a, Tail(b)))
  ELSE BigAdd(BigMulDigit(a, Head(b), 0), BigShift(BigMul(a, Tail(b))))

\* a < b
RECURSIVE BigLessFrom(_, _, _)
BigLessFrom(a, b, i) ==
  IF i = 0 THEN FALSE
  ELSE IF a[i] # b[i] THEN a[i] < b[i]
  ELSE BigLessFrom(a, b, i - 1)

BigLess(a, b) ==
  IF Len(a) # Len(b) THEN Len(a) < Len(b) ELSE BigLessFrom(a, b, Len(a))

RECURSIVE BigTrim(_)
BigTrim(a) ==
  IF a = <<>> THEN <<>>
  ELSE IF a[Len(a)] = 0 THEN BigTrim(SubSeq(a, 1, Len(a) - 1)) ELSE a

\* a - b for a >= b, before trimming of leading zero digits
RECURSIVE BigSubB(_, _, _)
BigSubB(a, b, c) ==
  IF a = <<>> THEN <<>>
  ELSE LET y == IF b = <<>> THEN 0 ELSE Head(b)
           s == Head(a) - y - c
       IN <<IF s < 0 THEN s + BASE ELSE s>> \o
          BigSubB(Tail(a), IF b = <<>> THEN <<>> ELSE Tail(b),
                  IF s < 0 THEN 1 ELSE 0)

BigSub(a, b) == BigTrim(BigSubB(a, b, 0))

\* Signed integers of arbitrary size: sign s in {-1, 0, 1}, magnitude m
Z(s, m) == [s |-> IF m = <<>> THEN 0 ELSE s, m |-> m]
ZFromInt(i) == IF i < 0 THEN Z(0 - 1, NatToBig(0 - i)) ELSE Z(1, NatToBig(i))
ZNeg(a) == Z(0 - a.s, a.m)
ZMul(a, b) == Z(a.s * b.s, BigMul(a.m, b.m))
ZAdd(a, b) ==
  IF a.s = 0 THEN b
  ELSE IF b.s = 0 THEN a
  ELSE IF a.s = b.s THEN Z(a.s, BigAdd(a.m, b.m))
  ELSE IF BigLess(a.m, b.m) THEN Z(b.s, BigSub(b.m, a.m))
  ELSE Z(a.s, BigSub(a.m, b.m))
ZSub(a, b) == ZAdd(a, ZNeg(b))

\* Fractions n / d with d > 0, not reduced; d = 0 is NaN
Q(n, d) == [n |-> n, d |-> d]
QNaN == Q(ZFromInt(0), ZFromInt(0))
QIsNaN(a) == a.d.s = 0
QFromInt(i) == Q(ZFromInt(i), ZFromInt(1))
QFromUnits(r) == IF r = NaN THEN QNaN ELSE Q(ZFromInt(r), ZFromInt(Scale))
QMul(a, b) ==
  IF QIsNaN(a) \/ QIsNaN(b) THEN QNaN ELSE Q(ZMul(a.n, b.n), ZMul(a.d, b.d))
QAdd(a, b) ==
  IF QIsNaN(a) \/ QIsNaN(b) THEN QNaN
  ELSE Q(ZAdd(ZMul(a.n, b.d), ZMul(b.n, a.d)), ZMul(a.d, b.d))
QSub(a, b) ==
  IF QIsNaN(a) \/ QIsNaN(b) THEN QNaN
  ELSE Q(ZSub(ZMul(a.n, b.d), ZMul(b.n, a.d)), ZMul(a.d, b.d))
\* a / b; a zero divisor gives NaN (inf never reaches a reported figure here)
QDiv(a, b) ==
  IF QIsNaN(a) \/ QIsNaN(b) \/ b.n.s = 0 THEN QNaN
  ELSE Q(ZMul(ZMul(a.n, b.d), Z(b.n.s, <<1>>)), ZMul(a.d, Z(1, b.n.m)))
\* numeric equality of two fractions (NaN equals nothing)
QEq(a, b) ==
  /\ ~QIsNaN(a)
  /\ ~QIsNaN(b)
  /\ ZMul(a.n, b.d) = ZMul(b.n, a.d)

\* ------------------------------------------------------------------------
\* Series helpers (pandas / numpy operations used by the script)
\* ------------------------------------------------------------------------
\* A price series is a sequence of rows [date, close] in increasing date
\* order; a date is [year, day], day being the trading-day ordinal.
\* a function on 1..n as an explicit tuple
Tuple(f) == f \o <<>>

Row(y, k, c) == [date |-> [year |-> y, day |-> k], close |-> c]

IsNa(x) == x = NaN

\* Series.dropna()
dropna(series) == SelectSeq(series, LAMBDA r : ~IsNa(r.close))

RECURSIVE SumRange(_, _, _)
SumRange(col, lo, hi) ==
  IF lo > hi THEN 0 ELSE col[hi] + SumRange(col, lo, hi - 1)

\* Series.rolling(window).mean(), in units of 1/window
rolling_mean(col, window) ==
  Tuple([i \in 1..Len(col) |->
     IF i < window THEN NaN
     ELSE IF \E k \in (i - window + 1)..i : IsNa(col[k]) THEN NaN
     ELSE SumRange(col, i - window + 1, i)])

\* Series.shift(1)
shift_no_lag(col) == col
shift(col) ==
  Tuple([i \in 1..Len(col) |-> IF i = 1 THEN NaN ELSE col[i - 1]])

\* price > sma element-wise, sma in units of 1/SMA_PERIOD; a comparison
\* with NaN is False
GreaterThan(price, sma) ==
  Tuple([i \in 1..Len(price) |->
     /\ ~IsNa(price[i])
     /\ ~IsNa(sma[i])
     /\ price[i] * SMA_PERIOD > sma[i]])

\* np.where(cond, a, b) with a column or a scalar on either side
where(cond, a, b) ==
  Tuple([i \in 1..Len(cond) |-> IF cond[i] THEN a[i] ELSE b[i]])
\* col == v element-wise
Equals(col, v) == Tuple([i \in 1..Len(col) |-> col[i] = v])
Const(n, v) == Tuple([i \in 1..n |-> v])

\* Series.pct_change() over the rows of the series itself, in units 1/Scale
pct_change(closes) ==
  Tuple([i \in 1..Len(closes) |->
     IF i = 1 \/ IsNa(closes[i]) \/ IsNa(closes[i - 1]) THEN NaN
     ELSE ((closes[i] - closes[i - 1]) * Scale) \div closes[i - 1]])

fillna(col, v) ==
  Tuple([i \in 1..Len(col) |-> IF IsNa(col[i]) THEN v ELSE col[i]])

Closes(series) == Tuple([i \in 1..Len(series) |-> series[i].close])
Dates(series) == Tuple([i \in 1..Len(series) |-> series[i].date])

\* df[col] = values-of-another-series: alignment on the date key; a date of
\* the frame that the series lacks gets NaN, a date the frame lacks is dropped
align(index, dates, values) ==
  Tuple([i \in 1..Len(index) |->
     IF \E k \in 1..Len(dates) : dates[k] = index[i]
     THEN values[CHOOSE k \in 1..Len(dates) : dates[k] = index[i]]
     ELSE NaN])

\* element-wise arithmetic with NaN propagation
Times(col, k) ==
  Tuple([i \in 1..Len(col) |-> IF IsNa(col[i]) THEN NaN ELSE col[i] * k])
Minus(a, b) ==
  Tuple([i \in 1..Len(a) |-> IF IsNa(a[i]) \/ IsNa(b[i]) THEN NaN ELSE a[i] - b[i]])
Plus(a, b) ==
  Tuple([i \in 1..Len(a) |-> IF IsNa(a[i]) \/ IsNa(b[i]) THEN NaN ELSE a[i] + b[i]])

\* Series.combine_first(other): own value where present, else the other's
combine_first_other(a, b) == b
combine_first(a, b) ==
  Tuple([i \in 1..Len(a) |-> IF IsNa(a[i]) THEN b[i] ELSE a[i]])

\* (1 + col), as fractions
OnePlus(col) ==
  Tuple([i \in 1..Len(col) |-> QAdd(QFromInt(1), QFromUnits(col[i]))])

\* Series.cumprod(): running product; a NaN cell stays NaN and is skipped
RECURSIVE cumprod_upto(_, _)
cumprod_upto(col, i) ==
  IF i = 0 THEN QFromInt(1)
  ELSE IF QIsNaN(col[i]) THEN cumprod_upto(col, i - 1)
  ELSE QMul(cumprod_upto(col, i - 1), col[i])

cumprod(col) ==
  Tuple([i \in 1..Len(col) |-> IF QIsNaN(col[i]) THEN QNaN ELSE cumprod_upto(col, i)])

ScalarTimes(k, col) == Tuple([i \in 1..Len(col) |-> QMul(QFromInt(k), col[i])])

\* ------------------------------------------------------------------------
\* 2. Data engine: fetch_hybrid_data
\* ------------------------------------------------------------------------
\* df['RiskFree_Rate'] = FIXED_RISK_FREE_RATE / 252, in units of 1/Scale
RiskFree_Rate == (FIXED_RISK_FREE_RATE * Scale) \div (1000 * TradingDays)

SMA(Price) == rolling_mean(Price, SMA_PERIOD)

\* np.where(Price.shift(1) > SMA.shift(1), 1, 0)
Signal(Price) ==
  LET n == Len(Price)
  IN where(GreaterThan(shift(Price), shift(SMA(Price))), Const(n, 1), Const(n, 0))

SPY_Ret(Price) == fillna(pct_change(Price), 0)

\* df[...] = instrument.pct_change(), aligned on the frame's dates
Ret_Real(index, instrument) ==
  align(index, Dates(instrument), pct_change(Closes(instrument)))

cost_of_money(n) == Plus(Const(n, RiskFree_Rate), Const(n, BROKER_SPREAD))

SSO_Ret_Synth_Bad(spy_ret) ==
  LET n == Len(spy_ret)
  IN Minus(Minus(Times(spy_ret, 2), Times(cost_of_money(n), 2)),
           Const(n, DAILY_EXPENSE))
SSO_Ret_Synth(spy_ret) ==
  LET n == Len(spy_ret)
  IN Minus(Minus(Times(spy_ret, 2), Times(cost_of_money(n), 1)),
           Const(n, DAILY_EXPENSE))

UPRO_Ret_Synth(spy_ret) ==
  LET n == Len(spy_ret)
  IN Minus(Minus(Times(spy_ret, 3), Times(cost_of_money(n), 2)),
           Const(n, DAILY_EXPENSE))

\* np.where(df['Signal'] == 1, final, df['RiskFree_Rate'])
Strat_FlatOnBear(signal, final) ==
  where(Equals(signal, 1), final, Const(Len(signal), 0))
Strat(signal, final) ==
  where(Equals(signal, 1), final, Const(Len(signal), RiskFree_Rate))

\* START_CAPITAL * (1 + ret).cumprod()
Equity_NoCompounding(ret) == ScalarTimes(START_CAPITAL, OnePlus(ret))
Equity(ret) == ScalarTimes(START_CAPITAL, cumprod(OnePlus(ret)))

\* the frame before line 94, one record per benchmark date
Frame(spy, sso, upro) ==
  LET price == Closes(spy)
      index == Dates(spy)
      n == Len(price)
      sma == SMA(price)
      signal == Signal(price)
      spy_ret == SPY_Ret(price)
      sso_real == Ret_Real(index, sso)
      upro_real == Ret_Real(index, upro)
      sso_synth == SSO_Ret_Synth(spy_ret)
      upro_synth == UPRO_Ret_Synth(spy_ret)
      sso_final == combine_first(sso_real, sso_synth)
      upro_final == combine_first(upro_real, upro_synth)
      strat_2x == Strat(signal, sso_final)
      strat_3x == Strat(signal, upro_final)
      eq_2x == Equity(strat_2x)
      eq_3x == Equity(strat_3x)
      eq_bench == Equity(spy_ret)
  IN Tuple([i \in 1..n |->
        [date |-> index[i], Price |-> price[i],
         RiskFree_Rate |-> RiskFree_Rate,
         SMA |-> sma[i], Signal |-> signal[i], SPY_Ret |-> spy_ret[i],
         SSO_Ret_Real |-> sso_real[i], UPRO_Ret_Real |-> upro_real[i],
         SSO_Ret_Synth |-> sso_synth[i], UPRO_Ret_Synth |-> upro_synth[i],
         SSO_Final |-> sso_final[i], UPRO_Final |-> upro_final[i],
         Strat_2x |-> strat_2x[i], Strat_3x |-> strat_3x[i],
         Eq_2x |-> eq_2x[i], Eq_3x |-> eq_3x[i], Eq_Bench |-> eq_bench[i]]])

\* df.dropna(subset=['Eq_2x', 'Eq_3x'])
dropna_subset(frame) ==
  SelectSeq(frame, LAMBDA r : ~QIsNaN(r.Eq_2x) /\ ~QIsNaN(r.Eq_3x))

fetch_hybrid_data(spy, sso, upro) == dropna_subset(Frame(dropna(spy), sso, upro))

\* ------------------------------------------------------------------------
\* 3. Report script
\* ------------------------------------------------------------------------
\* df.empty or np.isnan(df['Price'].iloc[-1])
Invalid(frame) ==
  IF frame = <<>> THEN TRUE ELSE IsNa(frame[Len(frame)].Price)

\* is_bullish = current_price > current_sma
is_bullish_from_signal(frame) == frame[Len(frame)].Signal = 1
is_bullish_of(frame) ==
  LET last == frame[Len(frame)]
  IN /\ ~IsNa(last.Price)
     /\ ~IsNa(last.SMA)
     /\ last.Price * SMA_PERIOD > last.SMA

signal_text_of(bullish) == IF bullish THEN "BUY / HOLD" ELSE "SELL / CASH"

\* rows of df[df.index.year == last_year]
last_year_data(frame) ==
  LET current_year == frame[Len(frame)].date.year
      last_year == current_year - 1
  IN {i \in 1..Len(frame) : frame[i].date.year = last_year}

Max(S) == CHOOSE x \in S : \A y \in S : y <= x

\* base_idx = last_year_data.index[-1]
base_idx_first(frame) ==
  CHOOSE i \in last_year_data(frame) : \A j \in last_year_data(frame) : i <= j
base_idx(frame) == Max(last_year_data(frame))

\* ((eq.iloc[-1] / eq.loc[base_idx]) - 1) * 100
PeriodReturn(last, base) ==
  QMul(QSub(QDiv(last, base), QFromInt(1)), QFromInt(100))

ytd_of(frame) ==
  IF last_year_data(frame) # {}
  THEN LET last == frame[Len(frame)]
           base == frame[base_idx(frame)]
       IN [x2 |-> PeriodReturn(last.Eq_2x, base.Eq_2x),
           x3 |-> PeriodReturn(last.Eq_3x, base.Eq_3x),
           bench |-> PeriodReturn(last.Eq_Bench, base.Eq_Bench)]
  ELSE [x2 |-> QFromInt(0), x3 |-> QFromInt(0), bench |-> QFromInt(0)]

\* ------------------------------------------------------------------------
\* What yf.download can return (get_clean_series)
\* ------------------------------------------------------------------------
\* calendar years of n consecutive trading dates: they never decrease
YearSeqs(n) ==
  {ys \in [1..n -> BaseYear..(BaseYear + MaxYearSpan)] :
     /\ n > 0 => ys[1] = BaseYear
     /\ \A k \in 2..n : ys[k - 1] <= ys[k]}

YearOfDay(years, k) ==
  IF k <= Len(years) THEN years[k]
  ELSE IF years = <<>> THEN BaseYear ELSE years[Len(years)]

BenchmarkSeries(n, closes, years) ==
  Tuple([k \in 1..n |-> Row(years[k], k, closes[k])])

\* quotes of the two leveraged funds on trading day k
SSOClose == [k \in 1..MaxLen |-> 1 + (k % 2)]
UPROClose == [k \in 1..MaxLen |-> k]

\* a fund is quoted on every trading day, or from a later inception day
\* until its quotes stop, or not at all (get_clean_series returns an empty
\* Series when the download fails); <<a, b>> is the first and last day
InstrumentWindows == {<<0, 0>>, <<1, MaxLen>>, <<2, MaxLen - 1>>}

InstrumentSeries(w, years, close) ==
  IF w = <<0, 0>> THEN <<>>
  ELSE Tuple([i \in 1..(w[2] - w[1] + 1) |->
          Row(YearOfDay(years, w[1] + i - 1), w[1] + i - 1,
              close[w[1] + i - 1])])

\* ------------------------------------------------------------------------
\* State of one run of the script
\* ------------------------------------------------------------------------
VARIABLES
  pc,            \* position in the script
  spy_price,     \* series returned by get_clean_series(BENCHMARK_TICKER)
  sso_price,     \* series returned by get_clean_series('SSO')
  upro_price,    \* series returned by get_clean_series('UPRO')
  df,            \* the frame returned by fetch_hybrid_data
  is_bullish,    \* line 120
  signal_text,   \* line 122
  ytd,           \* ytd_2x, ytd_3x, ytd_bench (lines 128-139)
  exit_code,     \* 1 after exit(1), else 0
  output_file    \* content marker of index.html, "" while not written

vars == <<pc, spy_price, sso_price, upro_price, df, is_bullish, signal_text,
          ytd, exit_code, output_file>>

NoYtd == [x2 |-> QNaN, x3 |-> QNaN, bench |-> QNaN]

Init ==
  /\ pc = "start"
  /\ spy_price = <<>>
  /\ sso_price = <<>>
  /\ upro_price = <<>>
  /\ df = <<>>
  /\ is_bullish = FALSE
  /\ signal_text = ""
  /\ ytd = NoYtd
  /\ exit_code = 0
  /\ output_file = ""

\* line 102: df = fetch_hybrid_data(), the leveraged funds' quotes being
\* drawn from the given windows
Fetch(windows) ==
  /\ pc = "start"
  /\ \E n \in 0..MaxLen :
       \E closes \in [1..n -> 1..MaxPrice], years \in YearSeqs(n),
          w2 \in windows, w3 \in windows :
         LET spy == BenchmarkSeries(n, closes, years)
             sso == InstrumentSeries(w2, years, SSOClose)
             upro == InstrumentSeries(w3, years, UPROClose)
         IN /\ spy_price' = spy
            /\ sso_price' = sso
            /\ upro_price' = upro
            /\ df' = fetch_hybrid_data(spy, sso, upro)
  /\ pc' = "fetched"
  /\ UNCHANGED <<is_bullish, signal_text, ytd, exit_code, output_file>>

\* lines 104-106: the validity check fails, exit(1)
Abort ==
  /\ pc = "fetched"
  /\ Invalid(df)
  /\ exit_code' = 1
  /\ pc' = "exited"
  /\ UNCHANGED <<spy_price, sso_price, upro_price, df, is_bullish,
                 signal_text, ytd, output_file>>

\* lines 116-126: metrics of the last row
Metrics ==
  /\ pc = "fetched"
  /\ ~Invalid(df)
  /\ is_bullish' = is_bullish_of(df)
  /\ signal_text' = signal_text_of(is_bullish')
  /\ pc' = "metrics"
  /\ UNCHANGED <<spy_price, sso_price, upro_price, df, ytd, exit_code,
                 output_file>>

\* lines 128-139: YTD calculation
YTDCalculation ==
  /\ pc = "metrics"
  /\ ytd' = ytd_of(df)
  /\ pc' = "ytd"
  /\ UNCHANGED <<spy_price, sso_price, upro_price, df, is_bullish,
                 signal_text, exit_code, output_file>>

\* lines 248-262: the template is filled in and index.html is written
WriteOutput ==
  /\ pc = "ytd"
  /\ output_file' = signal_text
  /\ pc' = "done"
  /\ UNCHANGED <<spy_price, sso_price, upro_price, df, is_bullish,
                 signal_text, ytd, exit_code>>

FetchHybridData == Fetch(InstrumentWindows)

\* the run in which both leveraged downloads fail (lines 47-49)
FetchBenchmarkOnly == Fetch({<<0, 0>>})

Next == FetchHybridData \/ Abort \/ Metrics \/ YTDCalculation \/ WriteOutput

Spec == Init /\ [][Next]_vars

NextBenchmarkOnly ==
  FetchBenchmarkOnly \/ Abort \/ Metrics \/ YTDCalculation \/ WriteOutput

SpecBenchmarkOnly == Init /\ [][NextBenchmarkOnly]_vars

\* ------------------------------------------------------------------------
\* Properties
\* ------------------------------------------------------------------------
Fetched == pc # "start"
Reported == pc \in {"metrics", "ytd", "done"}
Rows == 1..Len(df)
SpyCloses == Closes(spy_price)

\* the window sum that the mean of the last SMA_PERIOD closes up to t stands for
WindowSum(closes, t) == SumRange(closes, t - SMA_PERIOD + 1, t)

\* C1: no lookahead.  signal(t) is 1 exactly when price(t-1) and sma(t-1)
\* are defined and price(t-1) > sma(t-1), and any benchmark series that
\* agrees with the downloaded one on all dates before t gives the same
\* signal(t): later closes never change it.
NoLookahead ==
  Fetched =>
    /\ \A t \in Rows :
         df[t].Signal = 1 <=>
           /\ t - 1 >= SMA_PERIOD
           /\ SpyCloses[t - 1] * SMA_PERIOD > WindowSum(SpyCloses, t - 1)
    /\ \A other \in [1..Len(spy_price) -> 1..MaxPrice] :
         \A t \in Rows :
           (\A k \in 1..(t - 1) : other[k] = SpyCloses[k])
             => Signal(other)[t] = df[t].Signal

\* a date whose signal is 1 although its own close is not above its own SMA,
\* and one whose signal is 0 although its own close is above its own SMA
NoLookaheadWitness ==
  /\ pc = "fetched"
  /\ \E t \in Rows :
       /\ df[t].Signal = 1
       /\ ~(df[t].Price * SMA_PERIOD > df[t].SMA)
  /\ \E t \in Rows :
       /\ df[t].Signal = 0
       /\ ~IsNa(df[t].SMA)
       /\ df[t].Price * SMA_PERIOD > df[t].SMA

\* C2: a date t whose price(t-1) or sma(t-1) is undefined (the first
\* SMA_PERIOD dates) has no row in the returned frame, hence no numeric
\* signal, strategy return or equity value.
UndefinedSignalExcluded ==
  Fetched => \A i \in Rows : df[i].date.day > SMA_PERIOD

\* C3: the benchmark return of the first benchmark date is undefined (no
\* prior price), so Eq_Bench has no value on that date: the undefined return
\* is not compounded as a 0 return.
UndefinedReturnNotCompounded ==
  Fetched =>
    \A i \in Rows :
      df[i].date.day = 1 =>
        /\ QIsNaN(df[i].Eq_Bench)
        /\ ~QEq(df[i].Eq_Bench, QFromInt(START_CAPITAL))

\* C4: a non-empty benchmark with fewer than SMA_PERIOD dates is fatal: the
\* run never gets past the validity check and index.html is never written.
InsufficientHistoryFatal ==
  (Len(spy_price) > 0 /\ Len(spy_price) < SMA_PERIOD) =>
    /\ pc \in {"fetched", "exited"}
    /\ output_file = ""

\* the real return of an instrument on a date: defined when the instrument
\* has a row on that date and an earlier row
HasRealReturn(instrument, date) ==
  \E k \in 2..Len(instrument) : instrument[k].date = date
RealRow(instrument, date) ==
  CHOOSE k \in 2..Len(instrument) : instrument[k].date = date

SplicedFrom(final, synth, instrument, date) ==
  IF HasRealReturn(instrument, date)
  THEN LET k == RealRow(instrument, date)
       IN final * instrument[k - 1].close =
            (instrument[k].close - instrument[k - 1].close) * Scale
  ELSE final = synth

\* C5: splice correctness.  On every benchmark date the final return of a
\* tier is the instrument's real return when the instrument has one on that
\* date, and the synthetic return otherwise.
SpliceCorrect ==
  Fetched =>
    \A i \in Rows :
      /\ SplicedFrom(df[i].SSO_Final, df[i].SSO_Ret_Synth, sso_price, df[i].date)
      /\ SplicedFrom(df[i].UPRO_Final, df[i].UPRO_Ret_Synth, upro_price,
                     df[i].date)

\* one tier has dates before inception, a real return, and a gap after the
\* quotes stop, while the other tier has no quotes at all
SpliceWitness ==
  /\ pc = "fetched"
  /\ upro_price = <<>>
  /\ \E a, b, c \in Rows :
       /\ a < b
       /\ b < c
       /\ ~HasRealReturn(sso_price, df[a].date)
       /\ HasRealReturn(sso_price, df[b].date)
       /\ df[b].SSO_Final # df[b].SSO_Ret_Synth
       /\ ~HasRealReturn(sso_price, df[c].date)
       /\ df[c].SSO_Final = df[c].SSO_Ret_Synth
       /\ df[c].UPRO_Final = df[c].UPRO_Ret_Synth

\* C6: strategy selection.  The strategy return is the tier's final return
\* on a date whose signal is 1 and the risk-free daily rate on a date whose
\* signal is 0, never 0 and never the negated return.
StrategySelection ==
  Fetched =>
    \A i \in Rows :
      /\ df[i].Signal \in {0, 1}
      /\ df[i].Signal = 1 =>
           /\ df[i].Strat_2x = df[i].SSO_Final
           /\ df[i].Strat_3x = df[i].UPRO_Final
      /\ df[i].Signal = 0 =>
           /\ df[i].Strat_2x = (FIXED_RISK_FREE_RATE * Scale) \div (1000 * TradingDays)
           /\ df[i].Strat_3x = df[i].Strat_2x
           /\ df[i].Strat_2x > 0

StrategySelectionWitness ==
  /\ pc = "fetched"
  /\ \E i, j \in Rows :
       /\ df[i].Signal = 0
       /\ df[i].SSO_Final # df[i].Strat_2x
       /\ df[i].UPRO_Final < 0
       /\ df[j].Signal = 1
       /\ df[j].Strat_2x # df[j].RiskFree_Rate

\* the rows of the result dated in the calendar year before the last row's
PriorYearRows ==
  {i \in Rows : df[i].date.year = df[Len(df)].date.year - 1}

\* figure = (last / anchor - 1) * 100, stated as
\* (figure / 100 + 1) * anchor = last
IsPeriodReturn(figure, last, anchor) ==
  QEq(QMul(QAdd(QDiv(figure, QFromInt(100)), QFromInt(1)), anchor), last)

\* C7: period (YTD) return.  With T the last row and A the last row dated in
\* year(T) - 1, each figure is (equity(T) / equity(A) - 1) * 100 of its own
\* curve; without a row in year(T) - 1 the three figures are exactly 0.
PeriodReturnAnchored ==
  pc \in {"ytd", "done"} =>
    IF PriorYearRows = {}
    THEN /\ ytd.x2 = QFromInt(0)
         /\ ytd.x3 = QFromInt(0)
         /\ ytd.bench = QFromInt(0)
    ELSE LET T == Len(df)
             A == CHOOSE i \in PriorYearRows : \A j \in PriorYearRows : j <= i
         IN /\ IsPeriodReturn(ytd.x2, df[T].Eq_2x, df[A].Eq_2x)
            /\ IsPeriodReturn(ytd.x3, df[T].Eq_3x, df[A].Eq_3x)
            /\ IsPeriodReturn(ytd.bench, df[T].Eq_Bench, df[A].Eq_Bench)

\* the prior year holds several rows with different equity, and the figures
\* are not 0
PeriodReturnWitness ==
  /\ pc = "ytd"
  /\ \E i, j \in PriorYearRows :
       /\ i < j
       /\ ~QEq(df[i].Eq_2x, df[j].Eq_2x)
       /\ ~QEq(df[i].Eq_Bench, df[j].Eq_Bench)
  /\ ~QEq(ytd.x2, QFromInt(0))
  /\ ~QEq(ytd.bench, QFromInt(0))
  /\ ~QEq(ytd.x2, ytd.x3)

\* equity(i) = previous * (1 + ret), previous being START_CAPITAL on the
\* first row
Compounds(eq, i, ret) ==
  QEq(eq[i],
      QMul(IF i = 1 THEN QFromInt(START_CAPITAL) ELSE eq[i - 1],
           QAdd(QFromInt(1), Q(ZFromInt(ret), ZFromInt(Scale)))))

\* C8: equity compounding.  On every row each curve is the previous row's
\* value times (1 + the row's return), starting from START_CAPITAL, and
\* returns 0.01 and -0.02 give 10100 and 9898.
EquityCompounds ==
  Fetched =>
    /\ \A i \in Rows :
         /\ Compounds([k \in Rows |-> df[k].Eq_2x], i, df[i].Strat_2x)
         /\ Compounds([k \in Rows |-> df[k].Eq_3x], i, df[i].Strat_3x)
         /\ Compounds([k \in Rows |-> df[k].Eq_Bench], i, df[i].SPY_Ret)
    /\ QEq(Equity(<<Scale \div 100, 0 - (Scale \div 50)>>)[1], QFromInt(10100))
    /\ QEq(Equity(<<Scale \div 100, 0 - (Scale \div 50)>>)[2], QFromInt(9898))

\* three rows whose strategy returns differ from 0, so that each value
\* depends on all earlier ones
EquityCompoundsWitness ==
  /\ pc = "fetched"
  /\ Len(df) >= 3
  /\ \A i \in Rows : df[i].Strat_2x # 0 /\ df[i].Strat_3x # 0
  /\ \E i \in Rows : df[i].Signal = 1 /\ df[i].SPY_Ret # 0
  /\ ~QEq(df[Len(df)].Eq_2x, df[Len(df)].Eq_3x)

\* C9: synthetic return.  For L = 2 and L = 3 the synthetic return of every
\* date is r_b * L - (rf + broker_spread) * (L - 1) - daily_expense, r_b being
\* the benchmark's return on that date, and it is defined on every date.
SyntheticFormula ==
  Fetched =>
    \A i \in Rows :
      LET rf == (FIXED_RISK_FREE_RATE * Scale) \div (1000 * TradingDays)
          Synthetic(rb, L) == rb * L - (rf + BROKER_SPREAD) * (L - 1) - DAILY_EXPENSE
      IN /\ i > 1 =>
              df[i].SPY_Ret * SpyCloses[i - 1] =
                (SpyCloses[i] - SpyCloses[i - 1]) * Scale
         /\ ~IsNa(df[i].SSO_Ret_Synth)
         /\ ~IsNa(df[i].UPRO_Ret_Synth)
         /\ df[i].SSO_Ret_Synth = Synthetic(df[i].SPY_Ret, 2)
         /\ df[i].UPRO_Ret_Synth = Synthetic(df[i].SPY_Ret, 3)

\* a date with a rise and a date with a fall of the benchmark
SyntheticFormulaWitness ==
  /\ pc = "fetched"
  /\ \E i, j \in Rows :
       /\ df[i].SPY_Ret > 0
       /\ df[j].SPY_Ret < 0
       /\ df[i].UPRO_Ret_Synth > df[i].SSO_Ret_Synth
       /\ df[j].UPRO_Ret_Synth < df[j].SSO_Ret_Synth

\* C10, as stated: the reported regime is bullish exactly when the signal
\* applied on the final date is 1.
ReportedRegimeIsFinalSignal ==
  Reported =>
    /\ signal_text = "BUY / HOLD" <=> df[Len(df)].Signal = 1
    /\ signal_text = "SELL / CASH" <=> df[Len(df)].Signal = 0

\* C10, amended: the reported regime is decided by the final date's own
\* close and SMA: "BUY / HOLD" exactly when sma(T) is defined and
\* price(T) > sma(T), "SELL / CASH" otherwise; index.html carries it.
ReportedRegimeIsFinalClose ==
  Reported =>
    LET T == Len(spy_price)
        above == /\ T >= SMA_PERIOD
                 /\ SpyCloses[T] * SMA_PERIOD > WindowSum(SpyCloses, T)
    IN /\ signal_text = (IF above THEN "BUY / HOLD" ELSE "SELL / CASH")
       /\ is_bullish = above
       /\ pc = "done" => output_file = signal_text

\* the report says BUY / HOLD while the final date was held in cash
ReportedRegimeWitness ==
  /\ pc = "done"
  /\ output_file = "BUY / HOLD"
  /\ df[Len(df)].Signal = 0
  /\ df[Len(df)].Strat_2x = df[Len(df)].RiskFree_Rate

====
